---- MODULE Spec2Model ----
(***************************************************************************)
(* Model of monitor.py: the one-shot ZFS pool / disk SMART check.          *)
(*                                                                         *)
(* The script is straight-line code: a loop over the configured pools, one *)
(* summary notification, a loop over the sorted disk identifiers, and the  *)
(* final completion line.  Each loop iteration is one action; what the     *)
(* external commands print and return is the input of the iteration.       *)
(*                                                                         *)
(* Text is modelled as a sequence of lines (after strip()), each line a    *)
(* string of a small vocabulary; `None` is Python's None.                  *)
(* Numbers of terabytes are exact rationals [num, den] (reduced).          *)
(***************************************************************************)
EXTENDS Integers, Sequences, FiniteSets, TLC

\* ------------------------------------------------------------------ bounds

\* number of configured pools explored (POOLS_TO_MONITOR has 0..MaxPools entries)
MaxPools == 2
\* number of lines of the texts parse_smartctl_value is applied to
MaxLines == 2

\* ------------------------------------------------------- program constants

RATED_TBW == 360
REPLACEMENT_YEARS_AGE_LIMIT == 5

\* datetime.date.today().toordinal() for 2026-11-01, and date.max.toordinal()
\* (9999-12-31): date + timedelta raises OverflowError beyond it.
Today == 739921
DateMax == 3652059
\* timedelta(days=n) itself raises OverflowError for n above this magnitude
TimedeltaMaxDays == 999999999

None == "None"
\* None where a text (a sequence of lines) is expected
NoneText == <<None>>

\* --------------------------------------------------------------- pool text

PoolNames == <<"rpool", "tank", "data">>

HealthyLine(p) ==
    CASE p = "rpool" -> "pool 'rpool' is healthy"
      [] p = "tank"  -> "pool 'tank' is healthy"
      [] OTHER       -> "pool 'data' is healthy"

\* lines that contain the substring "no such pool"
NoSuchPoolLines == {"cannot open pool: no such pool"}
\* lines that contain the substring "not found"
NotFoundLines == {"/bin/sh: 1: zpool: not found"}

\* what `zpool status -x` can print, after strip(): no empty first line
StdoutLines(p) ==
    {HealthyLine(p), "cannot open pool: no such pool", "pool: degraded"}
StderrLines ==
    {"cannot open pool: no such pool", "/bin/sh: 1: zpool: not found"}

Texts(lines) == {<<>>} \cup {<<l>> : l \in lines}

HasLine(text, lines) == \E i \in DOMAIN text : text[i] \in lines

\* run_command: (stdout, stderr, returncode) of a command that ran, or
\* (None, str(e), -1) when subprocess.run raised.
CommandResults(p) ==
    { [stdout |-> o, stderr |-> e, retcode |-> r] :
        o \in Texts(StdoutLines(p)), e \in Texts(StderrLines), r \in {0, 1} }
    \cup
    { [stdout |-> NoneText, stderr |-> <<"subprocess failed">>, retcode |-> -1] }

\* ------------------------------------------------- pool verdict (164-175)

Healthy == "Healthy"
NotFound == "NotFound"
Degraded == "Degraded"
TypeError == "TypeError"

\* `marker in text`: raises TypeError when text is None
\* the if / elif / else of lines 166-175; status_line is the text after the
\* warning sign of pool_msg
PoolVerdict(p, res) ==
    IF res.retcode = 0 /\ res.stdout = NoneText
    THEN [raised |-> TypeError, health |-> None, status_line |-> None, priority |-> 1]
    ELSE IF res.retcode = 0 /\ HasLine(res.stdout, {HealthyLine(p)})
    THEN [raised |-> None, health |-> Healthy, status_line |-> None, priority |-> 1]
    ELSE IF HasLine(res.stderr, NoSuchPoolLines)
    THEN [raised |-> None, health |-> NotFound, status_line |-> None, priority |-> 8]
    ELSE IF res.stdout = NoneText
    THEN [raised |-> TypeError, health |-> None, status_line |-> None, priority |-> 1]
    ELSE IF HasLine(res.stdout, NoSuchPoolLines)
    THEN [raised |-> None, health |-> NotFound, status_line |-> None, priority |-> 8]
    ELSE [raised |-> None, health |-> Degraded,
          status_line |-> IF res.stdout # <<>> THEN res.stdout[1]
                          ELSE IF res.stderr # <<>> THEN res.stderr[1]
                          ELSE "Unknown Error",
          priority |-> 8]

\* "not found" in pool_msg (line 188): the NotFound message, or a status line
\* that happens to contain the words
MsgHasNotFound(v) ==
    \/ v.health = NotFound
    \/ v.health = Degraded /\ v.status_line \in NotFoundLines

\* lines 182-184: the running maximum
LastOverallPriority(overall, current) == current
UpdateOverallPriority(overall, current) ==
    IF current > overall THEN current ELSE overall

\* ------------------------------------------------------ disk identifiers

\* tokens matching \b(?:ata-|nvme-|wwn-)[^\s/]+ in `zpool status` output
RawIds == {"ata-A", "ata-A-part1", "nvme-B-part3"}
\* re.sub(r'(-part\d+|-part\d+)$', '', id)
CleanId(id) ==
    CASE id = "ata-A-part1"  -> "ata-A"
      [] id = "nvme-B-part3" -> "nvme-B"
      [] OTHER               -> id
\* sorted(): lexicographic order of the identifiers
DiskOrder == <<"ata-A", "nvme-B">>
DiskIds == {DiskOrder[i] : i \in DOMAIN DiskOrder}

RECURSIVE SortedFrom(_, _)
SortedFrom(i, S) ==
    IF i > Len(DiskOrder) THEN <<>>
    ELSE IF DiskOrder[i] \in S THEN <<DiskOrder[i]>> \o SortedFrom(i + 1, S)
    ELSE SortedFrom(i + 1, S)
SortedDisks(S) == SortedFrom(1, S)

\* ------------------------------------------------------- SMART parsing

PASSED == "PASSED"
FAILED == "FAILED"
Unknown == "Unknown"

\* smartctl -H output, by the markers it contains
HealthTexts ==
    { [passed |-> TRUE,  failed |-> FALSE, status_ok |-> FALSE],
      [passed |-> FALSE, failed |-> TRUE,  status_ok |-> FALSE],
      [passed |-> FALSE, failed |-> FALSE, status_ok |-> TRUE],
      [passed |-> FALSE, failed |-> FALSE, status_ok |-> FALSE] }

parse_smartctl_health(output) ==
    IF output.passed THEN PASSED
    ELSE IF output.failed THEN FAILED
    ELSE IF output.status_ok THEN PASSED
    ELSE Unknown

\* "N/A" for days_powered
DaysNA == -1

\* lines 307-318.  hours_raw: [k |-> "none"], [k |-> "bad"] (int() raises
\* ValueError) or [k |-> "int", v |-> n].  The result is f"{hours_num / 24:.1f}"
\* in tenths of a day: hours * 10 / 24 rounded to the nearest integer, ties
\* (x.25, x.75 days, exact in binary) to the even tenth.
DaysPowered(hours_raw) ==
    IF hours_raw.k = "int" /\ hours_raw.v >= 0
    THEN LET q == (hours_raw.v * 5) \div 12
             r == (hours_raw.v * 5) % 12
         IN  IF r < 6 THEN q
             ELSE IF r > 6 THEN q + 1
             ELSE IF q % 2 = 0 THEN q ELSE q + 1
    ELSE DaysNA

\* --------------------------------------- parse_smartctl_value (54-76)

\* A string is a sequence of characters; the alphabet has one letter with
\* an upper and a lower case, digits, other letters, the space and the colon.
Space == " "
Colon == ":"

\* str.lower()
LowerChar(c) == IF c = "T" THEN "t" ELSE c
Lower(s) == [i \in DOMAIN s |-> LowerChar(s[i])]

\* str.strip()
RECURSIVE LStrip(_)
LStrip(s) == IF s # <<>> /\ Head(s) = Space THEN LStrip(Tail(s)) ELSE s
RECURSIVE RStrip(_)
RStrip(s) ==
    IF s # <<>> /\ s[Len(s)] = Space THEN RStrip(SubSeq(s, 1, Len(s) - 1)) ELSE s
Strip(s) == RStrip(LStrip(s))

\* str.split(): the maximal runs of non-whitespace characters
RECURSIVE SplitFrom(_, _, _)
SplitFrom(s, cur, acc) ==
    IF s = <<>> THEN (IF cur = <<>> THEN acc ELSE Append(acc, cur))
    ELSE IF Head(s) = Space
    THEN SplitFrom(Tail(s), <<>>, IF cur = <<>> THEN acc ELSE Append(acc, cur))
    ELSE SplitFrom(Tail(s), Append(cur, Head(s)), acc)
Split(s) == SplitFrom(s, <<>>, <<>>)

\* line.split(':', 1): <<key, value>> around the first colon
RECURSIVE ColonAt(_, _)
ColonAt(s, i) ==
    IF i > Len(s) THEN 0 ELSE IF s[i] = Colon THEN i ELSE ColonAt(s, i + 1)
SplitColon(s) ==
    LET i == ColonAt(s, 1)
    IN  <<SubSeq(s, 1, i - 1), SubSeq(s, i + 1, Len(s))>>

\* return None / return a string
Absent == [found |-> FALSE, value |-> <<>>]
Value(v) == [found |-> TRUE, value |-> v]

\* lines 60-64: the first loop, from line i on
RECURSIVE SataScan(_, _, _)
SataScan(lines, i, attribute_name) ==
    IF i > Len(lines) THEN Absent
    ELSE LET parts == Split(lines[i])
         IN  IF Len(parts) >= 10 /\ parts[2] = attribute_name
             THEN Value(parts[10])
             ELSE SataScan(lines, i + 1, attribute_name)

\* lines 68-75: the second loop, from line i on
RECURSIVE NvmeScan(_, _, _)
NvmeScan(lines, i, search_key) ==
    IF i > Len(lines) THEN Absent
    ELSE IF ColonAt(lines[i], 1) # 0
            /\ Lower(Strip(SplitColon(lines[i])[1])) = search_key
    THEN Value(Strip(SplitColon(lines[i])[2]))
    ELSE NvmeScan(lines, i + 1, search_key)

\* one pass that tries both formats on each line
RECURSIVE ParseLineByLine(_, _, _)
ParseLineByLine(lines, i, attribute_name) ==
    IF i > Len(lines) THEN Absent
    ELSE LET sata == SataScan(<<lines[i]>>, 1, attribute_name)
             nvme == NvmeScan(<<lines[i]>>, 1, Lower(Strip(attribute_name)))
         IN  IF sata.found THEN sata
             ELSE IF nvme.found THEN nvme
             ELSE ParseLineByLine(lines, i + 1, attribute_name)
ParseSinglePass(output, attribute_name) ==
    ParseLineByLine(output, 1, attribute_name)

\* output is the text as output.splitlines() gives it
parse_smartctl_value(output, attribute_name) ==
    LET sata == SataScan(output, 1, attribute_name)
    IN  IF sata.found THEN sata
        ELSE NvmeScan(output, 1, Lower(Strip(attribute_name)))

\* ------------------------------------------------------------- rationals

RECURSIVE GCD(_, _)
GCD(a, b) == IF b = 0 THEN a ELSE GCD(b, a % b)

Rat(n, d) == LET g == GCD(n, d) IN [num |-> n \div g, den |-> d \div g]

\* ---------------------------------------------- terabytes written (354-372)

\* Counts of 512-byte units / sectors are modelled in multiples of 2^21, so
\* that count * 512 bytes is a whole number of GiB:
\*   (c * 2^21 * 512) / 1024^4  =  (c * 512) / 524288
SectorBytes == 512
TiBOverCountScale == 524288

TbFromCount(c) == Rat(c * SectorBytes, TiBOverCountScale)

NoTb == [k |-> "none", num |-> 0, den |-> 1]
TbVal(q) == [k |-> "val", num |-> q.num, den |-> q.den]
TbRaise(e) == [k |-> e, num |-> 0, den |-> 1]

\* data_units_written_raw:
\*   present  the field "Data Units Written" was found
\*   bracket  "none": no "[x TB]"; "bad": [\d.]+ matched what float() rejects;
\*            "val": tenths of a TB in bracket_tenths
\*   units    leading [\d,]+ count (in multiples of 2^21), -1 when there is none
\* lba_written_raw: [k |-> "none"], [k |-> "bad"] or [k |-> "int", v |-> count]
TbWritten(duw, lba) ==
    IF duw.present
    THEN IF duw.bracket = "bad" THEN TbRaise("ValueError")
         ELSE IF duw.bracket = "val" THEN TbVal(Rat(duw.bracket_tenths, 10))
         ELSE IF duw.units >= 0 THEN TbVal(TbFromCount(duw.units))
         ELSE NoTb
    ELSE IF lba.k = "bad" THEN TbRaise("ValueError")
    ELSE IF lba.k = "int" THEN TbVal(TbFromCount(lba.v))
    ELSE NoTb

\* ------------------------------------------- endurance estimate (375-407)

InnerCaught == {"ValueError", "TypeError", "ZeroDivisionError", "AttributeError"}

NoEstimate ==
    [k |-> "na", rate_pos |-> FALSE, rate_above |-> FALSE, rem_num |-> 0,
     has_days |-> FALSE, days_remaining |-> 0, has_years |-> FALSE,
     years_tenths |-> 0, replace |-> "N/A", replace_date |-> 0]

\* f"{days / 365:.1f}" in tenths of a year (days * 10 / 365 is never a tie)
YearsTenths(days) ==
    (days \div 365) * 10 + ((days % 365) * 20 + 365) \div 730

\* tb = [num, den] terabytes written, days_t = days_powered in tenths.
\*   gb_per_day     = tb * 1024 / days         (0.0 when days <= 0)
\*   remaining_tb   = RATED_TBW - tb           (sign of rem_num)
\*   days_remaining = floor(remaining_tb * 1024 / gb_per_day)
\*                  = floor(rem_num * days_t / (10 * num))
\* k is "ok", or the exception the date arithmetic raises.
Estimate(tb, days_t) ==
    LET rem_num    == RATED_TBW * tb.den - tb.num
        rate_pos   == days_t > 0 /\ tb.num > 0
        \* gb_per_day > 0.001  <=>  num * 10240 * 1000 > den * days_t
        rate_above == rate_pos /\ tb.num * 10240 > (tb.den * days_t) \div 1000
        days       == (rem_num * days_t) \div (10 * tb.num)
        age_date   == Today + REPLACEMENT_YEARS_AGE_LIMIT * 365
        base       == [NoEstimate EXCEPT !.k = "ok", !.rate_pos = rate_pos,
                                         !.rate_above = rate_above,
                                         !.rem_num = rem_num]
    IN  IF rate_above
        THEN IF days >= 0
             THEN IF days > TimedeltaMaxDays \/ Today + days > DateMax
                  THEN [base EXCEPT !.k = "OverflowError", !.has_days = TRUE,
                                    !.days_remaining = days, !.has_years = TRUE,
                                    !.years_tenths = YearsTenths(days)]
                  ELSE [base EXCEPT !.has_days = TRUE, !.days_remaining = days,
                                    !.has_years = TRUE,
                                    !.years_tenths = YearsTenths(days),
                                    !.replace = IF Today + days < age_date
                                                THEN "TBW limited"
                                                ELSE "age limited",
                                    !.replace_date = IF Today + days < age_date
                                                     THEN Today + days
                                                     ELSE age_date]
             ELSE [base EXCEPT !.has_days = TRUE, !.days_remaining = days,
                               !.has_years = TRUE, !.years_tenths = 0,
                               !.replace = "Now (TBW exceeded)"]
        ELSE IF rem_num >= 0
        THEN [base EXCEPT !.replace = "age limited", !.replace_date = age_date]
        ELSE base

\* lines 354-421: the whole try block.  calc is "ok" (estimate lines
\* appended), "na" (endurance stats N/A), "error" (calculation error line) or
\* "raised" (an exception the inner except does not list leaves the block).
Endurance(duw, lba, days_t) ==
    LET tb == TbWritten(duw, lba)
    IN  IF tb.k \notin {"none", "val"}
        THEN [calc |-> IF tb.k \in InnerCaught THEN "error" ELSE "raised",
              raised |-> IF tb.k \in InnerCaught THEN None ELSE tb.k,
              tb |-> NoTb, est |-> NoEstimate]
        ELSE IF tb.k = "val" /\ days_t # DaysNA /\ RATED_TBW > 0
        THEN LET e == Estimate(tb, days_t)
             IN  IF e.k = "ok"
                 THEN [calc |-> "ok", raised |-> None, tb |-> tb, est |-> e]
                 ELSE [calc |-> IF e.k \in InnerCaught THEN "error" ELSE "raised",
                       raised |-> IF e.k \in InnerCaught THEN None ELSE e.k,
                       tb |-> tb, est |-> e]
        ELSE [calc |-> "na", raised |-> None, tb |-> tb, est |-> NoEstimate]

\* ------------------------------------------------------------ the inputs

RetCodes == {0, 1, -1}

NoHours == [k |-> "none", v |-> 0]
BadHours == [k |-> "bad", v |-> 0]
Hours(n) == [k |-> "int", v |-> n]
HoursInputs ==
    {NoHours, BadHours} \cup {Hours(n) : n \in {0, 1, 24, 2400, 24000, 43800}}

NoDuw == [present |-> FALSE, bracket |-> "none", bracket_tenths |-> 0, units |-> -1]
DuwBracket(t, u) ==
    [present |-> TRUE, bracket |-> "val", bracket_tenths |-> t, units |-> u]
DuwBadBracket ==
    [present |-> TRUE, bracket |-> "bad", bracket_tenths |-> 0, units |-> 1]
DuwUnits(u) ==
    [present |-> TRUE, bracket |-> "none", bracket_tenths |-> 0, units |-> u]
\* the field is there, with neither "[x TB]" nor a leading number
DuwGarbage == DuwUnits(-1)

NoLba == [k |-> "none", v |-> 0]
BadLba == [k |-> "bad", v |-> 0]
Lba(n) == [k |-> "int", v |-> n]

\* (Data Units Written, Total_LBAs_Written) as found in `smartctl -A`
WrittenInputs ==
    { <<NoDuw, NoLba>>, <<NoDuw, Lba(2048)>>, <<NoDuw, BadLba>>,
      <<DuwBracket(0, 0), NoLba>>, <<DuwBracket(1, 204), NoLba>>,
      <<DuwBracket(180, 18432), Lba(2048)>>, <<DuwBracket(1800, -1), NoLba>>,
      <<DuwBracket(3601, -1), NoLba>>, <<DuwBadBracket, NoLba>>,
      <<DuwUnits(1), NoLba>>, <<DuwUnits(18432), NoLba>>,
      <<DuwGarbage, NoLba>>, <<DuwGarbage, Lba(2048)>> }

Passing == CHOOSE t \in HealthTexts : t.passed
Failing == CHOOSE t \in HealthTexts : t.failed

\* delivered: whether the HTTP delivery of this iteration's notification
\* (if it sends one) succeeds
DiskInput(pe, de, ri, rh, ra, ht, hr, w, ok) ==
    [path_exists |-> pe, dev_exists |-> de, ret_info |-> ri, ret_health |-> rh,
     ret_attrs |-> ra, health_out |-> ht, hours_raw |-> hr,
     duw |-> w[1], lba |-> w[2], delivered |-> ok]

\* what one disk iteration can meet: a missing path, a missing device, any
\* combination of query exit codes, and (all three 0) a SMART report
DiskInputs ==
    { DiskInput(FALSE, FALSE, 0, 0, 0, Passing, NoHours, <<NoDuw, NoLba>>, TRUE),
      DiskInput(TRUE, FALSE, 0, 0, 0, Passing, NoHours, <<NoDuw, NoLba>>, TRUE) }
    \cup
    { DiskInput(TRUE, TRUE, ri, rh, ra, Passing, NoHours, <<NoDuw, NoLba>>, ok) :
        ri \in RetCodes, rh \in RetCodes, ra \in RetCodes, ok \in BOOLEAN }
    \cup
    { DiskInput(TRUE, TRUE, 0, 0, 0, ht, hr, <<NoDuw, NoLba>>, ok) :
        ht \in HealthTexts, hr \in {NoHours, BadHours}, ok \in BOOLEAN }
    \cup
    { DiskInput(TRUE, TRUE, 0, 0, 0, ht, hr, w, TRUE) :
        ht \in {Passing, Failing}, hr \in HoursInputs \ {BadHours},
        w \in WrittenInputs }

\* os.path.basename(os.path.realpath(...)): the device a disk id points to
DiskDev(id) == IF id = "ata-A" THEN "sda" ELSE "nvme0n1"

\* ------------------------------------------------- one disk (lines 230-437)

\* line 270: which failed query makes the SMART-error notification go out
AnyQueryFailed(ri, rh, ra) == ri # 0 \/ rh # 0 \/ ra # 0
NotifiedOnAnyFailure(ri, rh, ra) == ri # 0 \/ rh # 0 \/ ra # 0
SmartErrorNotified(ri, rh, ra) == rh # 0

\* line 434: `except Exception` catches every exception the body raises
CatchesInnerOnly(exc) == exc \in InnerCaught
CaughtAtDiskBoundary(exc) == exc \in InnerCaught \cup {"OverflowError"}

NoDisk ==
    [id |-> None, stage |-> "none", ret_info |-> 0, ret_health |-> 0,
     ret_attrs |-> 0, health |-> Unknown, hours_raw |-> NoHours,
     days_powered |-> DaysNA, duw |-> NoDuw, lba |-> NoLba, calc |-> "na",
     raised |-> None, tb |-> NoTb, est |-> NoEstimate]

\* The locals of one iteration of the disk loop, and the notifications it
\* dispatches (kind, subject, priority), for disk id `id`, input `in` and the
\* value of overall_priority.
\* stage: "no_path" / "no_dev" (continue, 233-245), "smart_failed" (268-272),
\* "reported" (432), "error" (434-437), "uncaught".
DiskIteration(id, in, overall) ==
    LET base == [NoDisk EXCEPT !.id = id, !.ret_info = in.ret_info,
                               !.ret_health = in.ret_health,
                               !.ret_attrs = in.ret_attrs]
    IN  IF ~in.path_exists THEN
            [locals |-> [base EXCEPT !.stage = "no_path"], notes |-> <<>>]
        ELSE IF ~in.dev_exists THEN
            [locals |-> [base EXCEPT !.stage = "no_dev"], notes |-> <<>>]
        ELSE IF AnyQueryFailed(in.ret_info, in.ret_health, in.ret_attrs) THEN
            [locals |-> [base EXCEPT !.stage = "smart_failed"],
             notes |-> IF SmartErrorNotified(in.ret_info, in.ret_health, in.ret_attrs)
                       THEN << [kind |-> "smart_error", subject |-> DiskDev(id),
                                priority |-> 8] >>
                       ELSE <<>>]
        ELSE
            LET days == DaysPowered(in.hours_raw)
                e    == Endurance(in.duw, in.lba, days)
                loc  == [base EXCEPT !.health = parse_smartctl_health(in.health_out),
                                     !.hours_raw = in.hours_raw,
                                     !.days_powered = days,
                                     !.duw = in.duw, !.lba = in.lba,
                                     !.calc = e.calc, !.raised = e.raised,
                                     !.tb = e.tb, !.est = e.est]
            IN  IF e.raised = None THEN
                    [locals |-> [loc EXCEPT !.stage = "reported"],
                     notes |-> << [kind |-> "drive", subject |-> DiskDev(id),
                                   priority |-> overall] >>]
                ELSE IF CaughtAtDiskBoundary(e.raised) THEN
                    [locals |-> [loc EXCEPT !.stage = "error"],
                     notes |-> << [kind |-> "disk_error", subject |-> id,
                                   priority |-> 8] >>]
                ELSE
                    [locals |-> [loc EXCEPT !.stage = "uncaught"], notes |-> <<>>]

\* ------------------------------------------------------------- the state

VARIABLES
    pc,                  \* "pools", "disks", "done" (completion line printed)
                         \* or "aborted" (an exception left the script)
    POOLS_TO_MONITOR,    \* the configured pool list
    pool_idx,            \* position of the pool loop
    overall_priority,
    overall_health,
    all_disks,
    main_message_parts,  \* one entry per pool handled: its first summary
                         \* line (pool, verdict) and the verdict's priority
    pool,                \* the locals of the latest pool iteration
    queue,               \* what the disk loop still has to visit
    disk,                \* the locals of the latest disk iteration
    sent,                \* the calls of send_notification, in order
    delivery_failed,     \* some delivery raised or got a non-2xx answer
    parsed               \* a call of parse_smartctl_value: its arguments,
                         \* and its return value once it has returned

vars == <<pc, POOLS_TO_MONITOR, pool_idx, overall_priority, overall_health,
          all_disks, main_message_parts, pool, queue, disk, sent,
          delivery_failed, parsed>>

NoPool ==
    [name |-> None, stdout |-> <<>>, stderr |-> <<>>, retcode |-> 0,
     raised |-> None, health |-> None, status_line |-> None, priority |-> 1,
     usage |-> FALSE, detail |-> FALSE]

NoParse ==
    [output |-> <<>>, attribute_name |-> <<>>, pc |-> "idle", result |-> Absent]

Init ==
    /\ parsed = NoParse
    /\ pc = "pools"
    /\ POOLS_TO_MONITOR \in {SubSeq(PoolNames, 1, n) : n \in 0..MaxPools}
    /\ pool_idx = 1
    /\ overall_priority = 1
    /\ overall_health = Healthy
    /\ all_disks = {}
    /\ main_message_parts = <<>>
    /\ pool = NoPool
    /\ queue = <<>>
    /\ disk = NoDisk
    /\ sent = <<>>
    /\ delivery_failed = FALSE

\* send_notification (98-143): every delivery error is caught and printed
send_notification(log, note) == Append(log, note)

\* `zpool status` output for the detail block (197-203)
DetailTexts == {"empty", "no config section", "config section"}

\* lines 156-215, one iteration of the pool loop
ProcessPool ==
    /\ pc = "pools"
    /\ pool_idx <= Len(POOLS_TO_MONITOR)
    /\ LET p == POOLS_TO_MONITOR[pool_idx] IN
       \E res \in CommandResults(p), used \in BOOLEAN, avail \in BOOLEAN,
          ratio \in BOOLEAN, detail \in DetailTexts, ids \in SUBSET RawIds :
         LET v    == PoolVerdict(p, res)
             here == [NoPool EXCEPT !.name = p, !.stdout = res.stdout,
                                    !.stderr = res.stderr,
                                    !.retcode = res.retcode,
                                    !.raised = v.raised, !.health = v.health,
                                    !.status_line = v.status_line,
                                    !.priority = v.priority]
         IN  IF v.raised # None
             THEN /\ pc' = "aborted"
                  /\ pool' = here
                  /\ UNCHANGED <<pool_idx, overall_priority, overall_health,
                                 all_disks, main_message_parts>>
             ELSE /\ pc' = pc
                  /\ pool_idx' = pool_idx + 1
                  /\ overall_priority' =
                         UpdateOverallPriority(overall_priority, v.priority)
                  /\ overall_health' = IF v.priority > overall_priority
                                       THEN "Check Details" ELSE overall_health
                  /\ pool' = IF MsgHasNotFound(v) THEN here
                             ELSE [here EXCEPT
                                     !.usage = used /\ avail /\ ratio,
                                     !.detail = /\ v.health # Healthy
                                                /\ detail = "config section"]
                  /\ all_disks' = IF MsgHasNotFound(v) THEN all_disks
                                  ELSE all_disks \cup {CleanId(i) : i \in ids}
                  /\ main_message_parts' =
                         Append(main_message_parts,
                                [pool |-> p, health |-> v.health,
                                 priority |-> v.priority])
    /\ UNCHANGED <<POOLS_TO_MONITOR, queue, disk, sent, delivery_failed, parsed>>

\* lines 220-229: the summary notification, then sorted(list(all_disks))
SendSummary ==
    /\ pc = "pools"
    /\ pool_idx > Len(POOLS_TO_MONITOR)
    /\ \E failed \in BOOLEAN :
         /\ sent' = send_notification(sent, [kind |-> "summary", subject |-> "host",
                                             priority |-> overall_priority])
         /\ delivery_failed' = (delivery_failed \/ failed)
    /\ queue' = SortedDisks(all_disks)
    /\ pool' = NoPool
    /\ pc' = "disks"
    /\ UNCHANGED <<POOLS_TO_MONITOR, pool_idx, overall_priority, overall_health,
                   all_disks, main_message_parts, disk, parsed>>

\* lines 229-437, one iteration of the disk loop
ProcessDisk ==
    /\ pc = "disks"
    /\ queue # <<>>
    /\ \E in \in DiskInputs :
         LET it == DiskIteration(Head(queue), in, overall_priority)
         IN  /\ disk' = it.locals
             /\ sent' = IF it.notes = <<>> THEN sent
                        ELSE send_notification(sent, it.notes[1])
             /\ delivery_failed' = (delivery_failed \/ (it.notes # <<>> /\ ~in.delivered))
             /\ IF it.locals.stage = "uncaught"
                THEN pc' = "aborted" /\ queue' = queue
                ELSE pc' = pc /\ queue' = Tail(queue)
    /\ UNCHANGED <<POOLS_TO_MONITOR, pool_idx, overall_priority, overall_health,
                   all_disks, main_message_parts, pool, parsed>>

\* line 442: the completion line
Finish ==
    /\ pc = "disks"
    /\ queue = <<>>
    /\ pc' = "done"
    /\ UNCHANGED <<POOLS_TO_MONITOR, pool_idx, overall_priority, overall_health,
                   all_disks, main_message_parts, pool, queue, disk, sent,
                   delivery_failed, parsed>>

Next == ProcessPool \/ SendSummary \/ ProcessDisk \/ Finish

Spec == Init /\ [][Next]_vars

\* ------------------------------------- parse_smartctl_value on its own

RECURSIVE Join(_)
Join(tokens) ==
    IF Len(tokens) = 0 THEN <<>>
    ELSE IF Len(tokens) = 1 THEN tokens[1]
    ELSE tokens[1] \o <<Space>> \o Join(Tail(tokens))

\* a SATA attribute row: ID# ATTRIBUTE_NAME and seven more columns, RAW_VALUE
Row(name, raw) ==
    Join(<< <<"1">>, name, <<"a">>, <<"a">>, <<"a">>, <<"a">>, <<"a">>,
            <<"a">>, <<"a">>, raw >>)

\* lines of `smartctl -A` output, in both formats and near misses of both
ParseLines ==
    { Row(<<"T">>, <<"7">>),
      Row(<<"t">>, <<"9">>),
      <<Space>> \o Row(<<"T">>, <<"9">>) \o <<Space, Space, "a">>,
      Join(<< <<"1">>, <<"T">>, <<"a">>, <<"a">>, <<"a">>, <<"a">>, <<"a">>,
              <<"a">>, <<"7">> >>),
      <<"T", Colon, Space, "7">>,
      <<Space, "t", Space, Colon, "9", Space>>,
      <<"T", Colon, "7", Colon, "9">>,
      <<"T", Colon>>,
      <<"T", Colon, Space>> \o Join(<< <<"T">>, <<"a">>, <<"a">>, <<"a">>,
              <<"a">>, <<"a">>, <<"a">>, <<"a">>, <<"9">> >>),
      <<"a">> }

ParseNames == { <<"T">>, <<"t">>, <<Space, "T", Space>> }

RECURSIVE TextsUpTo(_)
TextsUpTo(n) ==
    IF n = 0 THEN {<<>>}
    ELSE LET shorter == TextsUpTo(n - 1)
         IN  shorter \cup {Append(t, l) : t \in shorter, l \in ParseLines}

InitParse ==
    /\ pc = "pools"
    /\ POOLS_TO_MONITOR = <<>>
    /\ pool_idx = 1
    /\ overall_priority = 1
    /\ overall_health = Healthy
    /\ all_disks = {}
    /\ main_message_parts = <<>>
    /\ pool = NoPool
    /\ queue = <<>>
    /\ disk = NoDisk
    /\ sent = <<>>
    /\ delivery_failed = FALSE
    /\ parsed \in { [output |-> t, attribute_name |-> n, pc |-> "called",
                     result |-> Absent] :
                       t \in TextsUpTo(MaxLines), n \in ParseNames }

\* the call returns
ParseValue ==
    /\ parsed.pc = "called"
    /\ parsed' = [parsed EXCEPT
                    !.pc = "done",
                    !.result = parse_smartctl_value(parsed.output,
                                                    parsed.attribute_name)]
    /\ UNCHANGED <<pc, POOLS_TO_MONITOR, pool_idx, overall_priority,
                   overall_health, all_disks, main_message_parts, pool, queue,
                   disk, sent, delivery_failed>>

NextParse == ParseValue

SpecParse == InitParse /\ [][NextParse]_vars

\* ------------------------------------------------------------ properties

\* the notifications dispatched for disk `id` (titled by device or by id)
DiskNotes(id) ==
    {i \in DOMAIN sent : /\ sent[i].kind # "summary"
                         /\ sent[i].subject \in {id, DiskDev(id)}}

\* the disks the loop has visited so far
Visited == all_disks \ {queue[i] : i \in DOMAIN queue}

\* position of a disk id in sorted order
Rank(id) == CHOOSE i \in DOMAIN DiskOrder : DiskOrder[i] = id

CapacityExceeded(d) == d.est.rem_num < 0
WithinOneYear(d) == d.est.replace_date # 0 /\ d.est.replace_date <= Today + 365
Triggered(d) ==
    \/ d.health = FAILED
    \/ d.calc = "ok" /\ (CapacityExceeded(d) \/ WithinOneYear(d))
    \/ d.calc = "error"

\* C1: a disk whose three SMART queries succeeded gets a per-disk
\* notification only if it is Failed, or replacement is imminent, or the
\* endurance calculation raised an error; otherwise none is dispatched.
C1_NotifiedOnlyOnTrigger ==
    (disk.stage = "reported" /\ ~Triggered(disk)) => DiskNotes(disk.id) = {}

\* C2: no outcome of an external command, of a delivery or of a disk's
\* processing aborts the run before the completion line.
C2_NoEarlyAbort == pc # "aborted"

MaxVerdictPriority ==
    CHOOSE m \in {1} \cup {main_message_parts[i].priority : i \in DOMAIN main_message_parts} :
        \A i \in DOMAIN main_message_parts : m >= main_message_parts[i].priority

\* C3: the summary notification is sent after every configured pool has its
\* verdict, with the maximum of the verdicts' priorities (1 when there is
\* none or all are Healthy).
C3_SummaryPriorityIsMax ==
    \A i \in DOMAIN sent :
        sent[i].kind = "summary" =>
            /\ Len(main_message_parts) = Len(POOLS_TO_MONITOR)
            /\ sent[i].priority = MaxVerdictPriority

\* a run whose first pool is worse than its last one
C3_Witness ==
    /\ \E i \in DOMAIN sent : sent[i].kind = "summary" /\ sent[i].priority = 8
    /\ Len(main_message_parts) = 2
    /\ main_message_parts[1].priority = 8
    /\ main_message_parts[2].priority = 1

\* C4 as claimed: whichever SMART query failed, the skipped device gets a
\* priority-8 notification.
C4_AnyFailureNotified ==
    disk.stage = "smart_failed" =>
        \E i \in DiskNotes(disk.id) :
            sent[i].kind = "smart_error" /\ sent[i].priority = 8

\* C4 amended: a resolved device with a failed SMART query is skipped (no
\* metrics, no estimate, no drive report); the priority-8 SMART-error
\* notification is dispatched exactly when the health query failed.
C4_SkippedNotifiedOnHealthFailure ==
    /\ disk.stage = "smart_failed" <=>
           /\ disk.stage \notin {"none", "no_path", "no_dev"}
           /\ (disk.ret_info # 0 \/ disk.ret_health # 0 \/ disk.ret_attrs # 0)
    /\ disk.stage = "smart_failed" =>
           /\ disk.tb = NoTb /\ disk.est = NoEstimate
           /\ disk.days_powered = DaysNA
           /\ \A i \in DiskNotes(disk.id) :
                  sent[i].kind = "smart_error" /\ sent[i].priority = 8
           /\ Cardinality(DiskNotes(disk.id)) =
                  IF disk.ret_health # 0 THEN 1 ELSE 0

\* only the info query failed: skipped without a notification
C4_Witness ==
    /\ disk.stage = "smart_failed"
    /\ disk.ret_info # 0 /\ disk.ret_health = 0 /\ disk.ret_attrs = 0
    /\ DiskNotes(disk.id) = {}

\* C5: a failure that escapes a disk's processing is caught at that disk,
\* gives exactly one priority-8 notification naming the disk id, and the loop
\* goes on: the disks after it in sorted order are visited or still queued,
\* and all are visited when the run completes.
C5_DiskFailureContained ==
    /\ disk.raised # None =>
           /\ disk.stage = "error"
           /\ pc \in {"disks", "done"}
           /\ \E i \in DOMAIN sent :
                  sent[i] = [kind |-> "disk_error", subject |-> disk.id,
                             priority |-> 8]
    /\ \A i \in DOMAIN sent :
           sent[i].kind = "disk_error" =>
               /\ sent[i].priority = 8
               /\ Cardinality(DiskNotes(sent[i].subject)) = 1
               /\ pc \in {"disks", "done"}
               /\ \A d \in all_disks :
                      Rank(d) > Rank(sent[i].subject) =>
                          \/ d \in Visited
                          \/ pc = "disks" /\ \E j \in DOMAIN queue : queue[j] = d
    /\ pc = "done" => Visited = all_disks

\* the first disk failed, the second one was still reported
C5_Witness ==
    /\ pc = "done"
    /\ \E i \in DOMAIN sent :
           sent[i].kind = "disk_error" /\ sent[i].subject = "ata-A"
    /\ disk.id = "nvme-B" /\ disk.stage = "reported"

\* C6: with positive power-on hours, written > rated gives "exceeded" and a
\* per-disk notification of priority 8; not exceeded but replacement within
\* a year gives priority 5.
C6_ExceededNotifiedAtPriority8 ==
    (disk.stage = "reported" /\ disk.calc = "ok" /\ disk.hours_raw.v > 0) =>
        /\ CapacityExceeded(disk) =>
               /\ disk.est.replace = "Now (TBW exceeded)"
               /\ \E i \in DiskNotes(disk.id) : sent[i].priority = 8
               /\ \A i \in DiskNotes(disk.id) : sent[i].priority = 8
        /\ (~CapacityExceeded(disk) /\ WithinOneYear(disk)) =>
               /\ \E i \in DiskNotes(disk.id) : sent[i].priority = 5
               /\ \A i \in DiskNotes(disk.id) : sent[i].priority = 5

\* C7: every computed estimate with negative remaining capacity recommends
\* "now, capacity exceeded" with 0 years remaining, whatever the daily rate.
C7_NegativeRemainingIsExceeded ==
    (disk.calc = "ok" /\ disk.est.rem_num < 0) =>
        /\ disk.est.replace = "Now (TBW exceeded)"
        /\ disk.est.has_years /\ disk.est.years_tenths = 0

\* C8: with a rate above 0.001 GB/day and non-negative remaining days the
\* recommendation is the earlier of today + max-age and today + remaining
\* days, usage-limited exactly when the usage date is strictly earlier; in
\* Scenario B (18 TB, 100.0 days) the days are 1900 and it is age-limited.
C8_EarlierOfAgeAndUsage ==
    (disk.tb.k = "val" /\ disk.est.rate_above /\ disk.est.days_remaining >= 0) =>
        LET age   == Today + REPLACEMENT_YEARS_AGE_LIMIT * 365
            usage == Today + disk.est.days_remaining
        IN  /\ disk.est.replace_date = IF usage < age THEN usage ELSE age
            /\ disk.est.replace = IF usage < age THEN "TBW limited"
                                  ELSE "age limited"
            /\ (disk.tb = TbVal(Rat(18, 1)) /\ disk.days_powered = 1000) =>
                   /\ disk.est.days_remaining = 1900
                   /\ disk.est.replace = "age limited"

\* the three rules of C9, with an absent output read as an empty one
ClaimedVerdict(p, stdout, stderr, retcode) ==
    LET out == IF stdout = NoneText THEN <<>> ELSE stdout
    IN  IF retcode = 0 /\ HasLine(out, {HealthyLine(p)})
        THEN [health |-> Healthy, status_line |-> None, priority |-> 1]
        ELSE IF HasLine(out, NoSuchPoolLines) \/ HasLine(stderr, NoSuchPoolLines)
        THEN [health |-> NotFound, status_line |-> None, priority |-> 8]
        ELSE [health |-> Degraded,
              status_line |-> IF out # <<>> THEN out[1]
                              ELSE IF stderr # <<>> THEN stderr[1]
                              ELSE "Unknown Error",
              priority |-> 8]

\* C9: for every exit status, output and error text the pool gets the verdict
\* and priority of the three rules, and a Healthy pool has no detail block.
C9_VerdictFollowsRules ==
    pool.name # None =>
        LET c == ClaimedVerdict(pool.name, pool.stdout, pool.stderr, pool.retcode)
        IN  /\ pool.health = c.health
            /\ pool.priority = c.priority
            /\ pool.status_line = c.status_line
            /\ pool.health = Healthy => ~pool.detail

\* the three steps chained, each used when the earlier ones yield no value
TbWrittenChained(duw, lba) ==
    LET fromDuw ==
            IF ~duw.present THEN NoTb
            ELSE IF duw.bracket = "bad" THEN TbRaise("ValueError")
            ELSE IF duw.bracket = "val" THEN TbVal(Rat(duw.bracket_tenths, 10))
            ELSE IF duw.units >= 0 THEN TbVal(TbFromCount(duw.units))
            ELSE NoTb
    IN  IF fromDuw.k # "none" THEN fromDuw
        ELSE IF lba.k = "bad" THEN TbRaise("ValueError")
        ELSE IF lba.k = "int" THEN TbVal(TbFromCount(lba.v))
        ELSE NoTb

\* C10: terabytes written come from the first of the three steps that yields
\* a value; a "Data Units Written" field without bracketed TB value and
\* without leading number falls through to the Total_LBAs_Written count.
C10_FallsThroughToSectorCount ==
    (disk.stage = "reported" /\ disk.calc # "error") =>
        /\ disk.tb = TbWrittenChained(disk.duw, disk.lba)
        /\ (disk.duw.present /\ disk.duw.bracket = "none" /\ disk.duw.units < 0
            /\ disk.lba.k = "int") => disk.tb = TbVal(TbFromCount(disk.lba.v))

\* the lines of a text that match in the columnar form: at least ten
\* whitespace tokens, the second one equal to the name
ColumnarMatches(output, name) ==
    {i \in DOMAIN output :
        Len(Split(output[i])) >= 10 /\ Split(output[i])[2] = name}

\* the lines that match in the key:value form: a colon, and the trimmed,
\* lower-cased text before the first one equal to the trimmed, lower-cased name
KeyValueMatches(output, name) ==
    {i \in DOMAIN output :
        /\ \E j \in DOMAIN output[i] : output[i][j] = Colon
        /\ Lower(Strip(SplitColon(output[i])[1])) = Lower(Strip(name))}

First(S) == CHOOSE i \in S : \A j \in S : i <= j

\* C11: parse_smartctl_value returns the tenth token of the first columnar
\* match if any line of the text matches in the columnar form, otherwise the
\* trimmed remainder after the first colon of the first key:value match,
\* otherwise absent; it always returns.
C11_ColumnarThenKeyValue ==
    parsed.pc = "done" =>
        LET cols == ColumnarMatches(parsed.output, parsed.attribute_name)
            kvs  == KeyValueMatches(parsed.output, parsed.attribute_name)
        IN  parsed.result =
                IF cols # {}
                THEN Value(Split(parsed.output[First(cols)])[10])
                ELSE IF kvs # {}
                THEN Value(Strip(SplitColon(parsed.output[First(kvs)])[2]))
                ELSE Absent

\* a key:value match on the first line, a columnar match on the second: the
\* columnar value is returned
C11_Witness ==
    /\ parsed.pc = "done"
    /\ Len(parsed.output) = 2
    /\ 1 \in KeyValueMatches(parsed.output, parsed.attribute_name)
    /\ ColumnarMatches(parsed.output, parsed.attribute_name) = {2}
    /\ parsed.result = Value(Split(parsed.output[2])[10])
    /\ parsed.result # Value(Strip(SplitColon(parsed.output[1])[2]))

====
